---- MODULE Spec2Model ----
(***************************************************************************)
(* useScopePerKey: one effect scope per key of a reactive object.          *)
(*                                                                         *)
(* Two implementations are modelled side by side, selected by `impl`:      *)
(*   "watch"        src/src/deep-reactivity.ts  (computed + watch, sync)   *)
(*   "watchEffect"  src/unnamed/part_000        (watchEffect, pre flush)   *)
(*                                                                         *)
(* JavaScript is single threaded and every call made by the code is        *)
(* synchronous, so one action is one top-level call of the program         *)
(* (a mutation of the source with the passes it triggers, a flush of the   *)
(* scheduler queue, a call of the returned function, a stop of a scope),   *)
(* computed by recursive operators over a record holding the state.        *)
(* `log` records the events of the last top-level call in order.           *)
(***************************************************************************)
EXTENDS Integers, Sequences, FiniteSets, TLC

\* -------------------------------------------------------------------------
\* Bounds
\* -------------------------------------------------------------------------
MaxScopes == 3       \* child scopes created in one behaviour
StackLimit == 2      \* re-entries of one scope's stop() at which the engine's stack is full
MaxHookRuns == 2     \* runs of one disposal hook in one behaviour
MaxCalls == 3        \* top-level calls made after construction in one behaviour

Keys == {"a", "b"}
NoKey == "-"
RootScope == 1
NoScope == 0

VARIABLES
  impl,          \* which implementation runs
  inertFirst,    \* EffectScope.stop() clears _active before (TRUE) or after (FALSE) the hooks
  rethrows,      \* the runtime's error handler rethrows what a watcher callback throws
                 \* (development build) or reports it and returns (production build)
  input,         \* Object.keys(input.value), in insertion order
  childScopes,   \* the Map childScopes, in insertion order: <<[key, scope], ...>>
  scopes,        \* every EffectScope created so far; scopes[RootScope] is parentScope/currentScope
  watcherActive, \* the watch/watchEffect effect has not been stopped
  pending,       \* the watchEffect job is queued for the next flush
  thrown,        \* the exception the last top-level call ended with ("none" if it returned)
  log,           \* events of the last top-level call
  returned,      \* useScopePerKey returned its function to the caller (it did not throw)
  skipped,       \* history: the keys the add loop of the last pass that a handler failure
                 \* ended did not reach, and whether a pass has begun since
  calls,         \* number of top-level calls made since construction
  disposed       \* the returned function has been called

vars == <<impl, inertFirst, rethrows, input, childScopes, scopes, watcherActive, pending,
          thrown, log, returned, skipped, calls, disposed>>

\* -------------------------------------------------------------------------
\* Sequences without duplicates over Keys: the possible Object.keys results
\* -------------------------------------------------------------------------
Range(s) == {s[i] : i \in DOMAIN s}

KeySeqs ==
  {s \in UNION {[1..n -> Keys] : n \in 0..Cardinality(Keys)} :
     \A i, j \in DOMAIN s : i # j => s[i] # s[j]}

Includes(s, x) == x \in Range(s)

\* -------------------------------------------------------------------------
\* Map<key, scope>
\* -------------------------------------------------------------------------
MapHas(m, k) == \E i \in DOMAIN m : m[i].key = k

MapGet(m, k) == m[CHOOSE i \in DOMAIN m : m[i].key = k].scope

MapSet(m, k, v) ==
  IF MapHas(m, k)
    THEN [i \in DOMAIN m |-> IF m[i].key = k THEN [key |-> k, scope |-> v] ELSE m[i]]
    ELSE Append(m, [key |-> k, scope |-> v])

MapDelete(m, k) == SelectSeq(m, LAMBDA e : e.key # k)

MapKeys(m) == [i \in DOMAIN m |-> m[i].key]

MapKeySet(m) == {m[i].key : i \in DOMAIN m}

\* -------------------------------------------------------------------------
\* Events
\* -------------------------------------------------------------------------
Event(e, id, k, ks) == [ev |-> e, id |-> id, key |-> k, keys |-> ks, reg |-> <<>>]

Emit(st, e, id, k, ks) == [st EXCEPT !.log = Append(@, Event(e, id, k, ks))]

\* A pass begins: its number within the call, the keys of the source it
\* reads and the keys the registry has at that moment.
PassNo(st) == Cardinality({i \in DOMAIN st.log : st.log[i].ev = "pass"}) + 1

EmitPass(st, ks) ==
  [st EXCEPT !.log = Append(@, [Event("pass", PassNo(st), NoKey, ks)
                                  EXCEPT !.reg = MapKeys(st.childScopes)])]

\* Pass n is left: it returns ("passEnd") or an exception leaves it
\* ("passFail"); the event records the keys the registry then has.
EmitPassEnd(st, n) ==
  [st EXCEPT !.log = Append(@, [Event(IF st.thrown # "none" THEN "passFail" ELSE "passEnd",
                                      n, NoKey, <<>>)
                                  EXCEPT !.reg = MapKeys(st.childScopes)])]

\* The passes of a call's events l, the event that leaves pass i, and the
\* innermost pass that event t lies in.
PassesOf(l) == {i \in DOMAIN l : l[i].ev = "pass"}

PassEndOf(l, i) ==
  IF \E j \in DOMAIN l : l[j].ev \in {"passEnd", "passFail"} /\ l[j].id = l[i].id
    THEN CHOOSE j \in DOMAIN l : l[j].ev \in {"passEnd", "passFail"} /\ l[j].id = l[i].id
    ELSE Len(l) + 1

InnermostPass(l, t) ==
  CHOOSE i \in PassesOf(l) :
    /\ i < t /\ t < PassEndOf(l, i)
    /\ \A j \in PassesOf(l) : (j < t /\ t < PassEndOf(l, j)) => j <= i

\* keysToAdd of the pass that begins at l[i]: the keys it read that the
\* registry did not have, in the order read.
KeysToAddOf(l, i) == SelectSeq(l[i].keys, LAMBDA key : ~Includes(l[i].reg, key))

\* The keys that come after k in the sequence ks.
KeysAfter(ks, k) ==
  {ks[n] : n \in {m \in DOMAIN ks : \E j \in DOMAIN ks : j < m /\ ks[j] = k}}

\* The keys that come after the failing key in keysToAdd of the pass in
\* which the handler invocation of event t threw.
SkippedAt(l, t) == KeysAfter(KeysToAddOf(l, InnermostPass(l, t)), l[t].key)

\* The keys a handler failure of the call l left unreached, no pass having
\* begun after the failure.
SkippedIn(l) ==
  UNION {SkippedAt(l, t) :
           t \in {n \in DOMAIN l : /\ l[n].ev = "throw"
                                    /\ \A i \in PassesOf(l) : i < n}}

NoSkipped == [keys |-> {}, served |-> FALSE]

\* The history after a call with the events l.
Skip(prev, l) ==
  IF SkippedIn(l) # {} THEN [keys |-> SkippedIn(l), served |-> FALSE]
  ELSE IF prev.keys # {} /\ ~prev.served
    THEN IF PassesOf(l) # {} THEN [prev EXCEPT !.served = TRUE] ELSE prev
  ELSE NoSkipped

\* An event that also records the registry as it is when the event happens.
EmitReg(st, e, id, k) ==
  [st EXCEPT !.log = Append(@, [Event(e, id, k, <<>>) EXCEPT !.reg = st.childScopes])]

\* -------------------------------------------------------------------------
\* What one handler invocation can do: return, give input.value an object
\* with the keys `keys` and return, or throw.
\* -------------------------------------------------------------------------
HandlerActs == {[act |-> "none", keys |-> <<>>], [act |-> "throw", keys |-> <<>>]} \cup
               {[act |-> "set", keys |-> ks] : ks \in KeySeqs}

\* -------------------------------------------------------------------------
\* The record the operators below transform: the variables, plus whether
\* the watchEffect effect is running. The operators that reach a handler
\* invocation return the set of states the call can end in, one for each
\* thing the handlers can do.
\* -------------------------------------------------------------------------
State ==
  [impl |-> impl, inertFirst |-> inertFirst, rethrows |-> rethrows, input |-> input,
   childScopes |-> childScopes, scopes |-> scopes, watcherActive |-> watcherActive,
   pending |-> pending, thrown |-> "none", log |-> <<>>,
   running |-> FALSE]

Failed(st) == st.thrown # "none"

\* The watcher callback runs under the runtime's error handling: what the
\* callback throws is rethrown to whoever triggered the watcher, or reported
\* on the console, after which the watcher job returns normally.
HandleError(st) ==
  IF st.thrown = "HandlerFailure" /\ ~st.rethrows
    THEN Emit([st EXCEPT !.thrown = "none"], "reported", NoScope, NoKey, <<>>)
    ELSE st

\* -------------------------------------------------------------------------
\* EffectScope (the runtime's scope primitive, as the code uses it)
\* -------------------------------------------------------------------------
\* effectScope(): a scope that is not detached is collected by the scope that
\* is active when it is created (cur), if there is one.
NewScope(st, cur, key) ==
  LET id == Len(st.scopes) + 1
      rec == [key |-> key, active |-> TRUE, parent |-> cur,
              index |-> IF cur # NoScope THEN Len(st.scopes[cur].scopes) + 1 ELSE 0,
              scopes |-> <<>>, handlerRan |-> FALSE, handlerThrew |-> FALSE,
              handlerHook |-> FALSE, selfHook |-> FALSE,
              handlerHookRuns |-> 0, selfHookRuns |-> 0]
      s1 == [st EXCEPT !.scopes = Append(@, rec)]
      s2 == IF cur # NoScope THEN [s1 EXCEPT !.scopes[cur].scopes = Append(@, id)] ELSE s1
  IN  Emit(s2, "create", id, key, <<>>)

Occurrences(stack, s) == Cardinality({i \in DOMAIN stack : stack[i] = s})

\* The end of EffectScope.stop(): a scope stopped on its own is taken out of
\* its parent's list (pop, and the popped scope takes its place), then the
\* scope is marked inactive.
FinishStop(st, s, fromParent) ==
  LET p == st.scopes[s].parent
      idx == st.scopes[s].index
      lst == IF p # NoScope THEN st.scopes[p].scopes ELSE <<>>
      popped == IF lst = <<>> THEN <<>> ELSE SubSeq(lst, 1, Len(lst) - 1)
      last == IF lst = <<>> THEN NoScope ELSE lst[Len(lst)]
      s1 == IF p = NoScope \/ fromParent \/ lst = <<>> THEN st
            ELSE IF last = s \/ idx \notin DOMAIN popped
              THEN [st EXCEPT !.scopes[p].scopes = popped]
              ELSE [st EXCEPT !.scopes[p].scopes = [popped EXCEPT ![idx] = last],
                              !.scopes[last].index = idx]
  IN  [s1 EXCEPT !.scopes[s].parent = NoScope, !.scopes[s].active = FALSE]

RECURSIVE Stop(_, _, _, _)
RECURSIVE StopChildrenFrom(_, _, _, _, _)

\* deep-reactivity.ts, the hook registered with onScopeDispose for `key`.
SelfRemovingHook(st, s, stack) ==
  LET key == st.scopes[s].key
      s0 == EmitReg([st EXCEPT !.scopes[s].selfHookRuns = @ + 1], "selfHook", s, key)
  IN  IF ~MapHas(s0.childScopes, key) THEN s0
      ELSE LET s1 == Stop(s0, MapGet(s0.childScopes, key), FALSE, stack)
           IN  IF Failed(s1) THEN s1
               ELSE Emit([s1 EXCEPT !.childScopes = MapDelete(@, key)],
                         "delete", s, key, <<>>)

\* The cleanups of a scope in registration order: the hook the handler
\* registered, then (watch implementation) the self-removing hook.
RunCleanups(st, s, stack) ==
  LET s1 == IF st.scopes[s].handlerHook
              THEN Emit([st EXCEPT !.scopes[s].handlerHookRuns = @ + 1],
                        "hook", s, st.scopes[s].key, <<>>)
              ELSE st
  IN  IF s1.scopes[s].selfHook THEN SelfRemovingHook(s1, s, stack) ELSE s1

\* for (i = 0, l = this.scopes.length; i < l; i++) this.scopes[i].stop(true)
StopChildrenFrom(st, s, i, l, stack) ==
  IF Failed(st) \/ i > l THEN st
  ELSE IF i > Len(st.scopes[s].scopes) THEN [st EXCEPT !.thrown = "TypeError"]
  ELSE StopChildrenFrom(Stop(st, st.scopes[s].scopes[i], TRUE, stack), s, i + 1, l, stack)

\* EffectScope.stop(fromParent). `stack` lists the scopes whose stop() is
\* executing. A runtime that clears _active last re-enters stop() from the
\* self-removing hook without end; the engine then raises RangeError.
Stop(st, s, fromParent, stack) ==
  IF Failed(st) \/ ~st.scopes[s].active THEN st
  ELSE IF Occurrences(stack, s) >= StackLimit THEN [st EXCEPT !.thrown = "RangeError"]
  ELSE
    LET stk == Append(stack, s)
        s0 == IF st.inertFirst THEN [st EXCEPT !.scopes[s].active = FALSE] ELSE st
        s1 == IF s = RootScope THEN [s0 EXCEPT !.watcherActive = FALSE] ELSE s0
        s2 == RunCleanups(Emit(s1, "stop", s, s1.scopes[s].key, <<>>), s, stk)
        s3 == StopChildrenFrom(s2, s, 1, Len(s2.scopes[s].scopes), stk)
    IN  IF Failed(s3) THEN s3 ELSE FinishStop(s3, s, fromParent)

\* -------------------------------------------------------------------------
\* The reconciliation passes
\* -------------------------------------------------------------------------
RECURSIVE PassW(_, _)
RECURSIVE AddLoopW(_, _, _, _)

\* A change of the source's key set reaches the watcher: the watch
\* implementation runs its callback at once (flush: 'sync'), also from
\* inside a running callback; the watchEffect implementation queues its
\* job, unless the effect itself is running (an effect does not trigger
\* itself).
Trigger(st, cur) ==
  IF st.impl = "watch"
    THEN IF st.watcherActive THEN PassW(st, cur) ELSE {st}
    ELSE IF st.watcherActive /\ ~st.running THEN {[st EXCEPT !.pending = TRUE]} ELSE {st}

\* input.value is given the keys ks while scope cur is active.
SetInput(st, ks, cur) ==
  Trigger(Emit([st EXCEPT !.input = ks], "set", cur, NoKey, ks), cur)

\* handler(key), running inside `scope`: it registers a disposal hook of its
\* own and does one of HandlerActs.
Handler(st, key, scope) ==
  LET s1 == [st EXCEPT !.scopes[scope].handlerRan = TRUE,
                       !.scopes[scope].handlerHook = TRUE]
      s2 == EmitReg(s1, "handler", scope, key)
      s3 == Emit([s2 EXCEPT !.scopes[scope].handlerThrew = TRUE,
                            !.thrown = "HandlerFailure"], "throw", scope, key, <<>>)
  IN  UNION {IF a.act = "set" THEN SetInput(s2, a.keys, scope)
             ELSE IF a.act = "throw" THEN {s3}
             ELSE {s2} : a \in HandlerActs}

\* deep-reactivity.ts: newScope.run(() => { handler(key); onScopeDispose(...) })
RunW(st, key, newScope) ==
  {IF Failed(s1) THEN s1 ELSE [s1 EXCEPT !.scopes[newScope].selfHook = TRUE] :
     s1 \in Handler(st, key, newScope)}

\* Faulty variant of AddLoopW: the scope is put in the registry after the
\* handler has run in it.
AddLoopWRegistersLate(st, keysToAdd, i, cur) ==
  IF Failed(st) \/ i > Len(keysToAdd) THEN {st}
  ELSE IF Len(st.scopes) > MaxScopes THEN {}
  ELSE LET key == keysToAdd[i]
           s1 == NewScope(st, cur, key)
           newScope == Len(s1.scopes)
       IN  UNION {AddLoopW([s3 EXCEPT !.childScopes = MapSet(@, key, newScope)],
                           keysToAdd, i + 1, cur) : s3 \in RunW(s1, key, newScope)}

\* deep-reactivity.ts: for (const key of keysToAdd) { ... }
AddLoopW(st, keysToAdd, i, cur) ==
  IF Failed(st) \/ i > Len(keysToAdd) THEN {st}
  ELSE IF Len(st.scopes) > MaxScopes THEN {}
  ELSE LET key == keysToAdd[i]
           s1 == NewScope(st, cur, key)
           newScope == Len(s1.scopes)
           s2 == [s1 EXCEPT !.childScopes = MapSet(@, key, newScope)]
       IN  UNION {AddLoopW(s3, keysToAdd, i + 1, cur) : s3 \in RunW(s2, key, newScope)}

\* Faulty variant of PassW: the callback adds every key it observes, registered or not.
PassWAddsEveryKey(st, cur) ==
  {HandleError(EmitPassEnd(s, PassNo(st))) :
     s \in AddLoopW(EmitPass(st, st.input), st.input, 1, cur)}

\* deep-reactivity.ts: the watch callback.
PassW(st, cur) ==
  LET inputKeys == st.input
      keysToAdd == SelectSeq(inputKeys, LAMBDA key : ~MapHas(st.childScopes, key))
  IN  {HandleError(EmitPassEnd(s, PassNo(st))) :
         s \in AddLoopW(EmitPass(st, inputKeys), keysToAdd, 1, cur)}

\* part_000: for (const key of keysToRemove) { ... }
RECURSIVE RemoveLoopE(_, _, _)
RemoveLoopE(st, keysToRemove, i) ==
  IF Failed(st) \/ i > Len(keysToRemove) THEN st
  ELSE LET key == keysToRemove[i]
       IN  IF ~MapHas(st.childScopes, key) THEN RemoveLoopE(st, keysToRemove, i + 1)
           ELSE LET s1 == Stop(st, MapGet(st.childScopes, key), FALSE, <<>>)
                    s2 == IF Failed(s1) THEN s1
                          ELSE Emit([s1 EXCEPT !.childScopes = MapDelete(@, key)],
                                    "delete", NoScope, key, <<>>)
                IN  RemoveLoopE(s2, keysToRemove, i + 1)

RECURSIVE AddLoopE(_, _, _, _)

\* Faulty variant of AddLoopE: the loop goes on to the next key after a
\* handler has thrown.
AddLoopEContinuesAfterThrow(st, keysToAdd, i, cur) ==
  IF i > Len(keysToAdd) THEN {st}
  ELSE LET key == keysToAdd[i]
       IN  IF MapHas(st.childScopes, key) THEN AddLoopE(st, keysToAdd, i + 1, cur)
           ELSE IF Len(st.scopes) > MaxScopes THEN {}
           ELSE LET s1 == NewScope(st, cur, key)
                    s2 == [s1 EXCEPT !.childScopes = MapSet(@, key, Len(s1.scopes))]
                IN  UNION {AddLoopE(s3, keysToAdd, i + 1, cur) :
                             s3 \in Handler(s2, key, MapGet(s2.childScopes, key))}

\* part_000: for (const key of keysToAdd) { ... }
AddLoopE(st, keysToAdd, i, cur) ==
  IF Failed(st) \/ i > Len(keysToAdd) THEN {st}
  ELSE LET key == keysToAdd[i]
       IN  IF MapHas(st.childScopes, key) THEN AddLoopE(st, keysToAdd, i + 1, cur)
           ELSE IF Len(st.scopes) > MaxScopes THEN {}
           ELSE LET s1 == NewScope(st, cur, key)
                    s2 == [s1 EXCEPT !.childScopes = MapSet(@, key, Len(s1.scopes))]
                IN  UNION {AddLoopE(s3, keysToAdd, i + 1, cur) :
                             s3 \in Handler(s2, key, MapGet(s2.childScopes, key))}

\* Faulty variant of PassE: the add loop runs before the remove loop.
PassEAddsFirst(st, cur) ==
  LET inputKeys == st.input
      runningKeys == MapKeys(st.childScopes)
      keysToAdd == SelectSeq(inputKeys, LAMBDA key : ~Includes(runningKeys, key))
      keysToRemove == SelectSeq(runningKeys, LAMBDA key : ~Includes(inputKeys, key))
      s0 == EmitPass([st EXCEPT !.running = TRUE], inputKeys)
  IN  {HandleError(EmitPassEnd([RemoveLoopE(s2, keysToRemove, 1) EXCEPT !.running = FALSE],
                               PassNo(st))) :
         s2 \in AddLoopE(s0, keysToAdd, 1, cur)}

\* part_000: the watchEffect body.
PassE(st, cur) ==
  LET inputKeys == st.input
      runningKeys == MapKeys(st.childScopes)
      keysToAdd == SelectSeq(inputKeys, LAMBDA key : ~Includes(runningKeys, key))
      keysToRemove == SelectSeq(runningKeys, LAMBDA key : ~Includes(inputKeys, key))
      s0 == EmitPass([st EXCEPT !.running = TRUE], inputKeys)
      s1 == RemoveLoopE(s0, keysToRemove, 1)
  IN  {HandleError(EmitPassEnd([s2 EXCEPT !.running = FALSE], PassNo(st))) :
         s2 \in AddLoopE(s1, keysToAdd, 1, cur)}

\* -------------------------------------------------------------------------
\* useScopePerKey(input, handler), called with no scope active, on a source
\* with the keys ks.
\* -------------------------------------------------------------------------
useScopePerKey(im, rt, re, ks) ==
  LET st0 == [impl |-> im, inertFirst |-> rt, rethrows |-> re, input |-> ks,
              childScopes |-> <<>>,
              scopes |-> <<>>, watcherActive |-> TRUE, pending |-> FALSE,
              thrown |-> "none", log |-> <<>>, running |-> FALSE]
      st1 == NewScope(st0, NoScope, NoKey)
  IN  IF im = "watch" THEN PassW(st1, RootScope) ELSE PassE(st1, RootScope)

\* Faulty variant of Disposer: the returned function empties the registry and leaves
\* the watcher running.
DisposerLeavesWatcher(st) == [st EXCEPT !.childScopes = <<>>]

\* The function useScopePerKey returns.
Disposer(st) ==
  IF st.impl = "watch"
    THEN Stop(st, RootScope, FALSE, <<>>)
    ELSE [st EXCEPT !.watcherActive = FALSE]

\* -------------------------------------------------------------------------
\* Specification
\* -------------------------------------------------------------------------
Commit(st) ==
  /\ \A s \in DOMAIN st.scopes :
       /\ st.scopes[s].handlerHookRuns <= MaxHookRuns
       /\ st.scopes[s].selfHookRuns <= MaxHookRuns
  /\ input' = st.input
  /\ childScopes' = st.childScopes
  /\ scopes' = st.scopes
  /\ watcherActive' = st.watcherActive
  /\ pending' = st.pending
  /\ thrown' = st.thrown
  /\ log' = st.log
  /\ skipped' = Skip(skipped, st.log)
  /\ calls' = calls + 1
  /\ UNCHANGED <<impl, inertFirst, rethrows, returned>>

Init ==
  \E im \in {"watch", "watchEffect"}, rt \in BOOLEAN, re \in BOOLEAN, ks \in KeySeqs :
    \E st \in useScopePerKey(im, rt, re, ks) :
        /\ impl = im
        /\ inertFirst = rt
        /\ rethrows = re
        /\ returned = ~Failed(st)
        /\ input = st.input
        /\ childScopes = st.childScopes
        /\ scopes = st.scopes
        /\ watcherActive = st.watcherActive
        /\ pending = st.pending
        /\ thrown = st.thrown
        /\ log = st.log
        /\ skipped = Skip(NoSkipped, st.log)
        /\ calls = 0
        /\ disposed = FALSE

\* The caller replaces the source object or adds/removes keys: input.value
\* then has the keys ks.
Mutate ==
  \E ks \in KeySeqs :
    /\ calls < MaxCalls
    /\ \E st \in SetInput(State, ks, NoScope) : Commit(st)
    /\ UNCHANGED disposed

\* The scheduler runs the queued watchEffect job.
Flush ==
  /\ calls < MaxCalls
  /\ pending
  /\ LET st == Emit([State EXCEPT !.pending = FALSE], "flush", NoScope, NoKey, <<>>)
     IN  \E s1 \in (IF st.watcherActive THEN PassE(st, NoScope) ELSE {st}) : Commit(s1)
  /\ UNCHANGED disposed

\* The caller calls the returned function.
Dispose ==
  /\ calls < MaxCalls
  /\ returned
  /\ Commit(Disposer(Emit(State, "dispose", NoScope, NoKey, <<>>)))
  /\ disposed' = TRUE

\* A child scope is stopped on its own (by code holding the scope the
\* handler ran in).
StopScope ==
  \E s \in DOMAIN scopes :
    /\ calls < MaxCalls
    /\ s # RootScope
    /\ scopes[s].active
    /\ Commit(Stop(Emit(State, "stopScope", s, scopes[s].key, <<>>), s, FALSE, <<>>))
    /\ UNCHANGED disposed

Next == Mutate \/ Flush \/ Dispose \/ StopScope

Spec == Init /\ [][Next]_vars

\* -------------------------------------------------------------------------
\* Vocabulary of the properties
\* -------------------------------------------------------------------------
ChildIds == {s \in DOMAIN scopes : s # RootScope}

Registered(k) == MapHas(childScopes, k)

\* The last top-level call ran at least one reconciliation pass.
PassRan(l) == \E i \in DOMAIN l : l[i].ev = "pass"

HandlerCalls(l, k) == Cardinality({i \in DOMAIN l : l[i].ev = "handler" /\ l[i].key = k})

Created(l) == {l[i].id : i \in {j \in DOMAIN l : l[j].ev = "create"}}

\* -------------------------------------------------------------------------
\* C1 (watch implementation). When a mutation of the source removes a key k
\* that has a registered child scope, then once the synchronous notification
\* of that mutation has completed k's scope is disposed, its disposal hooks
\* have run, and k is no longer a key of childScopes.
\* -------------------------------------------------------------------------
C1_RemovedKeyScopeDisposed ==
  [][\A k \in Keys :
       ( /\ impl = "watch"
         /\ watcherActive
         /\ Registered(k)
         /\ Includes(input, k)
         /\ log' # <<>> /\ log'[1].ev = "set" /\ ~Includes(log'[1].keys, k) )
       => ( /\ ~MapHas(childScopes', k)
            /\ ~scopes'[MapGet(childScopes, k)].active
            /\ scopes'[MapGet(childScopes, k)].handlerHookRuns >= 1 )]_vars

\* -------------------------------------------------------------------------
\* C2 (watch implementation, flush 'sync'). Before the returned function is
\* called, whenever no pass is executing and in particular after every
\* mutation of the source, the key set of childScopes equals the key set of
\* the source object. Stated for the states that construction or a mutation
\* of the source leaves.
\* -------------------------------------------------------------------------
C2_RegistryEqualsSource ==
  ( /\ impl = "watch"
    /\ ~disposed
    /\ thrown = "none"
    /\ PassRan(log) )
  => MapKeySet(childScopes) = Range(input)

\* -------------------------------------------------------------------------
\* C3 (watchEffect implementation). When a pass has completed, the key set
\* of childScopes equals the key set the pass read and every scope the pass
\* took out of the registry is disposed; hence once no notification is
\* pending the key set of childScopes equals the current key set of the
\* source. Stated while the watcher has not been stopped.
\* -------------------------------------------------------------------------
PassKeys(l) == l[CHOOSE i \in DOMAIN l : l[i].ev = "pass"].keys

C3_PassLeavesRegistryEqualToKeysRead ==
  ( /\ impl = "watchEffect"
    /\ PassRan(log)
    /\ \A i \in DOMAIN log : log[i].ev # "passFail" )
  => ( /\ MapKeySet(childScopes) = Range(PassKeys(log))
       /\ \A i \in DOMAIN log : log[i].ev = "stop" => ~scopes[log[i].id].active )

C3_RegistryEqualsSourceWhenSettled ==
  /\ C3_PassLeavesRegistryEqualToKeysRead
  /\ ( /\ impl = "watchEffect"
       /\ watcherActive
       /\ ~pending )
     => MapKeySet(childScopes) = Range(input)

\* -------------------------------------------------------------------------
\* C4 (watch implementation). In every reachable state and for every key k,
\* at most one scope created for k is not disposed, also when a handler
\* changes the source while it runs (a nested pass inside the add loop).
\* -------------------------------------------------------------------------
LiveScopes(k) == {s \in ChildIds : scopes[s].key = k /\ scopes[s].active}

C4_AtMostOneLiveScopePerKey ==
  impl = "watch" => \A k \in Keys : Cardinality(LiveScopes(k)) <= 1

\* -------------------------------------------------------------------------
\* C5 (watch implementation). When the returned function is called, every
\* child scope in the registry at that moment is disposed, its disposal
\* hooks run, and the registry is empty afterwards (for scopes of the first
\* pass and of later passes alike). Stated for the runtime whose stop()
\* marks the scope inactive before it runs the hooks, where the stop() the
\* self-removing hook makes on its own scope returns at once.
\* -------------------------------------------------------------------------
C5_DisposerStopsRegisteredScopes ==
  [][( /\ impl = "watch"
       /\ inertFirst
       /\ ~disposed
       /\ disposed' )
     => ( /\ childScopes' = <<>>
          /\ \A i \in DOMAIN childScopes :
               /\ ~scopes'[childScopes[i].scope].active
               /\ scopes'[childScopes[i].scope].handlerHookRuns >= 1 )]_vars

\* -------------------------------------------------------------------------
\* C6 (watchEffect implementation, no enclosing scope). When the returned
\* function is called, every child scope in the registry at that moment is
\* disposed, its disposal hooks run, and the registry is empty afterwards.
\* -------------------------------------------------------------------------
C6_StopHandleStopsRegisteredScopes ==
  [][( /\ impl = "watchEffect"
       /\ ~disposed
       /\ disposed' )
     => ( /\ childScopes' = <<>>
          /\ \A i \in DOMAIN childScopes :
               /\ ~scopes'[childScopes[i].scope].active
               /\ scopes'[childScopes[i].scope].handlerHookRuns >= 1 )]_vars

\* -------------------------------------------------------------------------
\* C7 (both implementations). After the returned function has been called,
\* no mutation of the source and no notification still pending at the call
\* invokes the handler or creates a scope.
\* -------------------------------------------------------------------------
C7_NothingRunsAfterDisposal ==
  [][disposed =>
       /\ Len(scopes') = Len(scopes)
       /\ \A i \in DOMAIN log' : log'[i].ev \notin {"pass", "create", "handler"}]_vars

\* A key was added to the source after the call and got no scope.
C7_Witness ==
  /\ disposed
  /\ log # <<>> /\ log[1].ev \in {"set", "flush"}
  /\ \E k \in Range(input) : ~Registered(k)

\* -------------------------------------------------------------------------
\* C8 (watch implementation). Over any sequence of mutations and calls of
\* the returned function, each disposal hook of a child scope (the handler's
\* and the self-removing hook, which calls stop() on the scope being
\* disposed) runs exactly once when the scope is disposed and never again.
\* -------------------------------------------------------------------------
C8_HooksRunExactlyOnce ==
  impl = "watch" =>
    \A s \in ChildIds :
      /\ scopes[s].handlerHookRuns <= 1
      /\ scopes[s].selfHookRuns <= 1
      /\ (~scopes[s].active /\ scopes[s].handlerHook) => scopes[s].handlerHookRuns = 1

\* -------------------------------------------------------------------------
\* C9 (both implementations). A pass leaves alone every key that is in the
\* registry when the pass begins and in the key set it observes: until the
\* pass returns no scope is created for the key, its scope is not disposed
\* (no stop, no hook, no registry deletion) and the handler is not invoked
\* for it. A pass that observes exactly the key set of the registry creates
\* no scope, disposes none and invokes no handler.
\* -------------------------------------------------------------------------
Passes == {i \in DOMAIN log : log[i].ev = "pass"}

\* The events of the pass that begins at log[i], nested passes included.
PassEnd(i) ==
  IF \E j \in DOMAIN log : log[j].ev \in {"passEnd", "passFail"} /\ log[j].id = log[i].id
    THEN CHOOSE j \in DOMAIN log :
           log[j].ev \in {"passEnd", "passFail"} /\ log[j].id = log[i].id
    ELSE Len(log) + 1

During(i) == {j \in DOMAIN log : i < j /\ j < PassEnd(i)}

Touches(j, k) ==
  /\ log[j].key = k
  /\ log[j].ev \in {"create", "handler", "stop", "hook", "selfHook", "delete"}

C9_PassKeepsRegisteredKeys ==
  \A i \in Passes :
    /\ \A k \in Keys :
         (Includes(log[i].reg, k) /\ Includes(log[i].keys, k)) =>
            /\ \A j \in During(i) : ~Touches(j, k)
            /\ Registered(k)
    /\ Range(log[i].reg) = Range(log[i].keys) =>
         \A j \in During(i) : \A k \in Keys : ~Touches(j, k)

\* A pass added one key next to a key that was registered before it and
\* kept its live scope.
C9_Witness ==
  /\ PassRan(log)
  /\ \E k1, k2 \in Keys :
       /\ k1 # k2
       /\ Registered(k1) /\ Registered(k2)
       /\ MapGet(childScopes, k1) \notin Created(log)
       /\ scopes[MapGet(childScopes, k1)].active
       /\ MapGet(childScopes, k2) \in Created(log)
       /\ HandlerCalls(log, k1) = 0

\* -------------------------------------------------------------------------
\* C10 (watch implementation). When key k, absent from the source after an
\* earlier notification removed it, is added again by a later notification,
\* the registry then maps k to a scope created by that notification, the
\* handler has been invoked for k in it, and every scope created for k
\* earlier is disposed.
\* -------------------------------------------------------------------------
C10_ReAddedKeyGetsNewScope ==
  [][\A k \in Keys :
       ( /\ impl = "watch"
         /\ watcherActive
         /\ ~Includes(input, k)
         /\ log' # <<>> /\ log'[1].ev = "set" /\ Includes(log'[1].keys, k) )
       => ( /\ MapHas(childScopes', k)
            /\ MapGet(childScopes', k) \in Created(log')
            /\ scopes'[MapGet(childScopes', k)].handlerRan
            /\ \A s \in ChildIds : scopes[s].key = k => ~scopes'[s].active )]_vars

\* -------------------------------------------------------------------------
\* C11 (both implementations). If the handler throws while it is invoked
\* for key k, then after the failure k is still in the registry, mapped to
\* the live scope created for it; the handler is not invoked again for k
\* while k stays registered; and that scope is still disposed, and its
\* registry entry removed, when the reconciler later tears k down (a pass
\* observes a key set without k, or the returned function is called).
\* -------------------------------------------------------------------------
TearsDown(k) ==
  \/ ~disposed /\ disposed'
  \/ \E i \in DOMAIN log' : log'[i].ev = "pass" /\ ~Includes(log'[i].keys, k)

C11_FailedKeyStaysRegistered ==
  [][ /\ \A i \in DOMAIN log :
           log[i].ev = "throw" =>
             /\ Registered(log[i].key)
             /\ MapGet(childScopes, log[i].key) = log[i].id
             /\ scopes[log[i].id].active
      /\ \A k \in Keys : \A s \in ChildIds :
           ( /\ scopes[s].handlerThrew
             /\ scopes[s].key = k
             /\ Registered(k)
             /\ MapGet(childScopes, k) = s )
           => /\ MapHas(childScopes', k) => HandlerCalls(log', k) = 0
              /\ TearsDown(k) => ( /\ ~scopes'[s].active
                                   /\ ~MapHas(childScopes', k) ) ]_vars

\* -------------------------------------------------------------------------
\* C12 (both implementations). At the moment useScopePerKey returns, the
\* handler has been invoked exactly once for each key of the source's
\* initial object and for no other key, and the key set of the registry
\* equals the initial key set; when the initial object has no keys the
\* handler has not been invoked and the registry is empty.
\* -------------------------------------------------------------------------
\* The state is the one construction leaves, and useScopePerKey returned.
Constructed ==
  /\ returned
  /\ log # <<>>
  /\ log[1].ev = "create"
  /\ log[1].id = RootScope

\* The keys the immediate first pass read.
InitialKeys == Range(log[2].keys)

C12_HandlerRunsOncePerInitialKey ==
  Constructed =>
    /\ \A k \in Keys : HandlerCalls(log, k) = (IF k \in InitialKeys THEN 1 ELSE 0)
    /\ MapKeySet(childScopes) = InitialKeys

\* -------------------------------------------------------------------------
\* C13 (both implementations). At the moment handler(k) is invoked the
\* registry already maps k to the scope inside which the handler runs;
\* consequently a pass triggered from inside handler(k) finds k registered
\* and, until it is left, neither creates another scope for k nor invokes
\* the handler for k again.
\* -------------------------------------------------------------------------
Handlers == {j \in DOMAIN log : log[j].ev = "handler"}

\* Pass i was triggered by an assignment to the source made inside the
\* handler invocation log[j] (the assignment is made with the handler's
\* scope active, and a scope has one handler invocation).
TriggeredFromHandler(i, j) ==
  /\ i - 1 \in DOMAIN log
  /\ log[i - 1].ev = "set"
  /\ log[i - 1].id = log[j].id

C13_HandlerFindsItsScopeRegistered ==
  \A j \in Handlers :
    /\ MapHas(log[j].reg, log[j].key)
    /\ MapGet(log[j].reg, log[j].key) = log[j].id
    /\ \A i \in Passes :
         TriggeredFromHandler(i, j) =>
           /\ Includes(log[i].reg, log[j].key)
           /\ \A n \in During(i) :
                ~(log[n].ev \in {"create", "handler"} /\ log[n].key = log[j].key)

\* handler(k) changed the source to a key set that still has k; the pass
\* this triggered ran inside the handler, created a scope for another key
\* and left k with the scope the handler runs in.
C13_Witness ==
  \E j \in Handlers : \E i \in Passes :
    /\ TriggeredFromHandler(i, j)
    /\ Includes(log[i].keys, log[j].key)
    /\ \E n \in During(i) : log[n].ev = "create" /\ log[n].key # log[j].key
    /\ Registered(log[j].key)
    /\ MapGet(childScopes, log[j].key) = log[j].id

\* -------------------------------------------------------------------------
\* C14 (watchEffect implementation). Within one reconciliation pass, every
\* scope disposal (the stop of a scope, the run of its hook) and every
\* registry deletion performed by that pass happens before the first scope
\* creation or handler invocation of that pass.
\* -------------------------------------------------------------------------
C14_RemovalsBeforeAdditions ==
  impl = "watchEffect" =>
    \A i \in Passes : \A m, n \in During(i) :
      ( /\ log[m].ev \in {"stop", "hook", "delete"}
        /\ log[n].ev \in {"create", "handler"} )
      => m < n

\* A pass disposed the scope of one key, deleted its entry, and then
\* created a scope and invoked the handler for another key.
C14_Witness ==
  /\ impl = "watchEffect"
  /\ \E i \in Passes : \E m, d, n, h \in During(i) :
       /\ log[m].ev = "stop"
       /\ log[d].ev = "delete" /\ log[d].key = log[m].key
       /\ log[n].ev = "create" /\ log[n].key # log[m].key
       /\ log[h].ev = "handler" /\ log[h].id = log[n].id
       /\ ~scopes[log[m].id].active

\* -------------------------------------------------------------------------
\* C15 (watch implementation). When the self-removing disposal hook of a
\* scope S created for key k runs while the registry maps k to a different
\* scope S2, the hook is a no-op: it does not dispose S2 and it does not
\* delete k's registry entry.
\* -------------------------------------------------------------------------
\* The run log[j] of a self-removing hook finds its key mapped to another scope.
StaleHookRun(j) ==
  /\ log[j].ev = "selfHook"
  /\ MapHas(log[j].reg, log[j].key)
  /\ MapGet(log[j].reg, log[j].key) # log[j].id

C15_StaleHookIsNoOp ==
  impl = "watch" =>
    \A j \in DOMAIN log :
      StaleHookRun(j) =>
        /\ ~( /\ j + 1 \in DOMAIN log
              /\ log[j + 1].ev = "stop"
              /\ log[j + 1].id = MapGet(log[j].reg, log[j].key) )
        /\ \A n \in DOMAIN log :
             ~(n > j /\ log[n].ev = "delete" /\ log[n].id = log[j].id)

\* -------------------------------------------------------------------------
\* C16 (watch implementation). Whenever no reconciliation pass and no scope
\* disposal is executing (every state between two top-level calls), every
\* scope held in childScopes is live: each path that disposes a child scope
\* (the returned function, or the scope being stopped on its own) has also
\* removed the scope's registry entry before the disposal returned.
\* -------------------------------------------------------------------------
C16_RegisteredScopesAreLive ==
  impl = "watch" =>
    \A i \in DOMAIN childScopes : scopes[childScopes[i].scope].active

\* -------------------------------------------------------------------------
\* C17 (both implementations). When the handler throws for key k in a pass
\* that has several keys to add, the add loop of that pass stops there: the
\* pass creates no scope and invokes no handler after the failure, so the
\* keys that come after k in its keysToAdd get no scope, no registry entry
\* and no handler invocation in that pass; and each of them that is still
\* present gets exactly one scope and one handler invocation in the next
\* reconciliation pass.
\* -------------------------------------------------------------------------
Throws == {t \in DOMAIN log : log[t].ev = "throw"}

\* The events of the pass that begins at log[i] itself, those of the passes
\* nested in it left out.
Direct(i) ==
  {n \in During(i) : \A j \in Passes : (i < j /\ j < n) => PassEnd(j) < n}

\* The events of pass i that create a scope for k, or invoke the handler for k.
Adds(i, e, k) == {n \in Direct(i) : log[n].ev = e /\ log[n].key = k}

FirstPass == CHOOSE i \in Passes : \A j \in Passes : i <= j

====
